---- MODULE Spec2Model ----
(***************************************************************************)
(* Model of the deaths-door backend: the Session Store (GameManager and    *)
(* its asyncio lock), the Session Aggregate (Game, Player), the request    *)
(* handlers of routes/players.py, routes/characters.py and routes/game.py, *)
(* the visibility wait of get_player_role and the status-effect cascade.   *)
(*                                                                         *)
(* Each request is a process: it is issued, waits for the session lock,    *)
(* runs its handler under the lock and ends.  asyncio is cooperative: a    *)
(* handler is atomic between two awaits, so a handler with no await in its *)
(* body is one step, and get_player_role is one step per wake-up.          *)
(***************************************************************************)
EXTENDS Integers, Sequences, FiniteSets, TLC

VARIABLES
    game,       \* game_manager.game: the Session Aggregate
    lock,       \* game_manager.lock: the request holding it, or NoReq
    pc,         \* position of every request
    op,         \* handler a request in flight calls
    arg,        \* body / path parameters of a request in flight
    attempts,   \* polling_attempts of a get_player_role in flight
    entry,      \* history: the aggregate the lock holder was handed on entry
    last        \* history: the request that ended last: what it asked, the
                \* aggregate it started from, its answer and its polling_attempts

\* the Timer Service (timer_state.py)
VARIABLES
    seconds,    \* TimerState.seconds
    is_running, \* TimerState.is_running
    timer_lock, \* TimerState._lock: "free", or "tick" while handle_tick holds it
    tick_task,  \* TimerState._tick_task: none, idle between two ticks, pushing
                \* (inside a tick, awaiting the display push), or dead
    pending,    \* the set_seconds / set_is_running calls waiting for the lock
    calls,      \* history: number of calls made
    ticks,      \* history: number of ticks that have ended
    cues,       \* history: number of times the time's-up cue was played
    mark,       \* history: the timer as the last call left it
    tick,       \* history: the last tick, what it started from and what it did
    fetch       \* the fetch_timer request: where it is, the calls that wait
                \* for the lock in front of it, what it has read, and the
                \* history of the timer since its first read

\* the Display Sync Client (obs_manager.py)
VARIABLES
    connected,          \* ObsManager.connected
    video_settings,     \* ObsManager._video_settings is not None
    reconnect_enabled,  \* ObsManager._reconnect_enabled
    reconnect_task,     \* ObsManager._reconnect_task and where its loop is
    reconnect_delay,    \* ObsManager._reconnect_delay
    worker,             \* the job the thread of ObsManager._executor runs
    future,             \* what run_in_executor gives the reconnect loop
    delays,             \* history: the delays slept since the last connect
    connects,           \* history: number of connect attempts of the loop
    scene               \* ObsManager.run_id and the run the remote scene is of

session_vars == <<game, lock, pc, op, arg, attempts, entry, last>>
timer_vars ==
    <<seconds, is_running, timer_lock, tick_task, pending, calls, ticks, cues,
      mark, tick, fetch>>
obs_vars ==
    <<connected, video_settings, reconnect_enabled, reconnect_task,
      reconnect_delay, worker, future, delays, connects, scene>>
vars == <<session_vars, timer_vars, obs_vars>>

----------------------------------------------------------------------------
(* Bounds of the model *)

\* number of requests of one behaviour
NumRequests == 2

\* ROLE_REVEAL_TIMEOUT_ATTEMPTS of get_player_role, 100 in the source,
\* scaled down: the loop is the same for every positive value
MaxAttempts == 3

Reqs == 1..NumRequests
NoReq == 0
NoArg == [none |-> TRUE]
NoGame == [none |-> TRUE]
NoLast ==
    [op |-> "none", arg |-> NoArg, before |-> NoGame, res |-> "none", attempts |-> 0]

----------------------------------------------------------------------------
(* The script: characters, travelers and what the cascade needs of them *)

\* TroubleBrewing.characters, cut down to three characters, source order
ScriptCharacters == <<"Monk", "Poisoner", "Imp">>

\* TroubleBrewing.travelers, cut down to one
ScriptTravelers == <<"Beggar">>

CharacterNames == {ScriptCharacters[i] : i \in DOMAIN ScriptCharacters}
TravelerNames == {ScriptTravelers[i] : i \in DOMAIN ScriptTravelers}

\* Character.alignment as each character's constructor sets it
CharacterAlignment(c) ==
    CASE c = "Monk" -> "good"
      [] c = "Poisoner" -> "evil"
      [] c = "Imp" -> "evil"
      [] OTHER -> "unknown"

\* Character.normalize_name_for_comparison: lower-case, outer blanks stripped.
\* The names a request can carry are enumerated with their normal form.
normalize_name_for_comparison(n) ==
    CASE n \in {"Monk", "monk"} -> "monk"
      [] n \in {"Poisoner", "poisoner", " Poisoner "} -> "poisoner"
      [] n \in {"Imp", "imp"} -> "imp"
      [] n \in {"Beggar", "beggar"} -> "beggar"
      [] OTHER -> n

\* Character.is_named
is_named(c, n) ==
    normalize_name_for_comparison(c) = normalize_name_for_comparison(n)

\* Script.get_character: the character of the script with that name, or None
NoCharacter == "None"
get_character(n) ==
    IF \E c \in CharacterNames : is_named(c, n)
    THEN CHOOSE c \in CharacterNames : is_named(c, n)
    ELSE NoCharacter

\* names of the status effects a character is the source of
persistent_effect_names(c) ==
    CASE c = "Poisoner" -> {"Poisoned"}
      [] c = "Monk" -> {"Safe"}
      [] OTHER -> {}

----------------------------------------------------------------------------
(* Sequences as Python lists *)

RECURSIVE IndexOf(_, _, _)
\* index of the first element of s at or after i that equals x, 0 if none
IndexOf(s, x, i) ==
    IF i > Len(s) THEN 0
    ELSE IF s[i] = x THEN i
    ELSE IndexOf(s, x, i + 1)

\* s without its element at index i
RemoveAt(s, i) == [j \in 1..(Len(s) - 1) |-> IF j < i THEN s[j] ELSE s[j + 1]]

\* list.remove(x) for an x that may be absent (absent: unchanged)
ListRemove(s, x) ==
    IF IndexOf(s, x, 1) = 0 THEN s ELSE RemoveAt(s, IndexOf(s, x, 1))

Elems(s) == {s[i] : i \in DOMAIN s}

----------------------------------------------------------------------------
(* Player *)

\* Player.__init__
Player(name, character) ==
    [name |-> name,
     character |-> character,
     alignment |-> CharacterAlignment(character),
     is_alive |-> TRUE,
     has_used_dead_vote |-> FALSE,
     status_effects |-> <<>>]

\* Player.add_status_effect
add_status_effect(p, e) ==
    IF e \in Elems(p.status_effects) THEN p
    ELSE [p EXCEPT !.status_effects = Append(@, e)]

\* variant: a present effect takes every other effect with it
remove_status_effect_clear(p, e) ==
    IF e \in Elems(p.status_effects) THEN [p EXCEPT !.status_effects = <<>>] ELSE p

\* Player.remove_status_effect
remove_status_effect(p, e) ==
    [p EXCEPT !.status_effects = ListRemove(@, e)]

----------------------------------------------------------------------------
(* Game: the Session Aggregate *)

\* night bookmark of a new Game
DefaultNightStep == "Dusk"
DefaultFirstNight == TRUE

\* Game.__init__ for the one script the registry knows
NewGame ==
    [included_roles |-> <<>>,
     players |-> <<>>,
     should_reveal_roles |-> FALSE,
     current_night_step |-> DefaultNightStep,
     is_first_night |-> DefaultFirstNight]

\* what a method or a handler gives back: the aggregate it leaves and how it ended
Out(g, r) == [game |-> g, res |-> r]

RECURSIVE PlayerIndex(_, _, _)
\* index of the first player at or after i named name, 0 if none
PlayerIndex(g, name, i) ==
    IF i > Len(g.players) THEN 0
    ELSE IF g.players[i].name = name THEN i
    ELSE PlayerIndex(g, name, i + 1)

\* Game.get_player_by_name, as an index into players (0: None)
get_player_by_name(g, name) == PlayerIndex(g, name, 1)

\* Game.include_role
include_role(g, role_name) ==
    IF get_character(role_name) = NoCharacter
    THEN Out(g, "ValueError")
    ELSE Out([g EXCEPT !.included_roles = Append(@, get_character(role_name))], "ok")

RECURSIVE NamedIndex(_, _, _)
\* index of the first character of s at or after i that is_named(n), 0 if none
NamedIndex(s, n, i) ==
    IF i > Len(s) THEN 0
    ELSE IF is_named(s[i], n) THEN i
    ELSE NamedIndex(s, n, i + 1)

\* Game.remove_role
remove_role(g, role_name) ==
    IF NamedIndex(g.included_roles, role_name, 1) = 0
    THEN Out(g, "ValueError")
    ELSE Out([g EXCEPT !.included_roles =
                  RemoveAt(@, NamedIndex(g.included_roles, role_name, 1))], "ok")

\* variant: every occurrence of the character leaves the pool
add_player_with_character_remove_all(g, name, character) ==
    [g EXCEPT !.included_roles = SelectSeq(@, LAMBDA c : c # character),
              !.players = Append(@, Player(name, character))]

\* Game.add_player_with_character
add_player_with_character(g, name, character) ==
    [g EXCEPT !.included_roles = ListRemove(@, character),
              !.players = Append(@, Player(name, character))]

\* Game.add_player_with_random_role: one outcome per role secrets.choice can pick
add_player_with_random_role(g, name) ==
    IF Len(g.included_roles) = 0
    THEN {Out(g, "ValueError")}
    ELSE {Out(add_player_with_character(g, name, c), "ok") :
              c \in Elems(g.included_roles)}

\* Game.add_player_with_role: the first character of the pool with that name
add_player_with_role(g, name, role_name) ==
    IF Len(g.included_roles) = 0 THEN Out(g, "ValueError")
    ELSE IF NamedIndex(g.included_roles, role_name, 1) = 0
    THEN Out(g, "ValueError")
    ELSE Out(add_player_with_character(
                 g, name, g.included_roles[NamedIndex(g.included_roles, role_name, 1)]),
             "ok")

\* Game.get_unclaimed_travelers
get_unclaimed_travelers(g) ==
    {t \in TravelerNames : \A i \in DOMAIN g.players : g.players[i].character # t}

\* Game.add_player_as_traveler
add_player_as_traveler(g, name, traveler_name) ==
    IF traveler_name \notin get_unclaimed_travelers(g)
    THEN Out(g, "ValueError")
    ELSE Out([g EXCEPT !.players = Append(@, Player(name, traveler_name))], "ok")

\* variant: the player is removed and the character is not put back
remove_player_by_name_dropping(g, name) ==
    IF get_player_by_name(g, name) = 0
    THEN Out(g, "ValueError")
    ELSE Out([g EXCEPT !.players = RemoveAt(@, get_player_by_name(g, name))], "ok")

\* Game.remove_player_by_name
remove_player_by_name(g, name) ==
    IF get_player_by_name(g, name) = 0
    THEN Out(g, "ValueError")
    ELSE Out([g EXCEPT
                 !.players = RemoveAt(@, get_player_by_name(g, name)),
                 !.included_roles =
                     Append(@, g.players[get_player_by_name(g, name)].character)],
             "ok")

RECURSIVE RemoveAll(_, _)
\* p after remove_status_effect of every name of the sequence es
RemoveAll(p, es) ==
    IF es = <<>> THEN p
    ELSE RemoveAll(remove_status_effect(p, Head(es)), Tail(es))

RECURSIVE SetToSeq(_)
\* the elements of a finite set in some order
SetToSeq(S) ==
    IF S = {} THEN <<>>
    ELSE LET x == CHOOSE y \in S : TRUE IN <<x>> \o SetToSeq(S \ {x})

\* the cascade: every other player loses the effects the dying character is
\* the source of
remove_persistent_effects(g, i) ==
    [g EXCEPT !.players =
        [j \in DOMAIN g.players |->
            IF j = i THEN g.players[j]
            ELSE RemoveAll(g.players[j],
                     SetToSeq(persistent_effect_names(g.players[i].character)))]]

\* Game.set_player_alive_status: the cascade runs on alive -> dead only
set_player_alive_status(g, name, is_alive) ==
    LET i == get_player_by_name(g, name) IN
    IF i = 0 THEN Out(g, "ValueError")
    ELSE LET g1 == IF g.players[i].is_alive /\ ~is_alive
                   THEN remove_persistent_effects(g, i)
                   ELSE g
         IN Out([g1 EXCEPT !.players[i].is_alive = is_alive], "ok")

----------------------------------------------------------------------------
(* Request handlers: the aggregate and the status each one can end with.    *)
(* "ok" is a 2xx answer, NotFound 404, Conflict 409, InvalidArgument 400,    *)
(* Timeout 408, ServerError an exception no handler catches.                *)

Errors == {"NotFound", "Conflict", "InvalidArgument", "Timeout", "ServerError"}

\* routes/players.py add_player
add_player(g, a) ==
    IF get_player_by_name(g, a.name) # 0
    THEN {Out(g, "Conflict")}
    ELSE {IF o.res = "ValueError" THEN Out(g, "InvalidArgument") ELSE o :
              o \in add_player_with_random_role(g, a.name)}

\* routes/players.py add_player_as_traveler ("not found" is in every message
\* Game.add_player_as_traveler raises)
add_traveler(g, a) ==
    IF get_player_by_name(g, a.name) # 0
    THEN {Out(g, "Conflict")}
    ELSE LET o == add_player_as_traveler(g, a.name, a.traveler) IN
         {IF o.res = "ValueError" THEN Out(g, "NotFound") ELSE o}

\* variant: the flag is written on the player, the cascade is not run
set_player_alive_no_cascade(g, a) ==
    LET i == get_player_by_name(g, a.name) IN
    IF i = 0 THEN {Out(g, "NotFound")}
    ELSE {Out([g EXCEPT !.players[i].is_alive = a.is_alive], "ok")}

\* variant: the cascade is run whenever the flag is written
set_player_alive_cascade_always(g, a) ==
    LET i == get_player_by_name(g, a.name) IN
    IF i = 0 THEN {Out(g, "NotFound")}
    ELSE {Out([remove_persistent_effects(g, i) EXCEPT
                  !.players[i].is_alive = a.is_alive], "ok")}

\* routes/players.py set_player_alive
set_player_alive(g, a) ==
    LET o == set_player_alive_status(g, a.name, a.is_alive) IN
    {IF o.res = "ValueError" THEN Out(g, "NotFound") ELSE o}

\* routes/players.py set_player_has_used_dead_vote
set_player_has_used_dead_vote(g, a) ==
    LET i == get_player_by_name(g, a.name) IN
    IF i = 0 THEN {Out(g, "NotFound")}
    ELSE {Out([g EXCEPT !.players[i].has_used_dead_vote = a.has_used_dead_vote], "ok")}

\* routes/players.py set_player_alignment
set_player_alignment(g, a) ==
    LET i == get_player_by_name(g, a.name) IN
    IF i = 0 THEN {Out(g, "NotFound")}
    ELSE {Out([g EXCEPT !.players[i].alignment = a.alignment], "ok")}

\* routes/players.py swap_character
swap_character(g, a) ==
    LET i == get_player_by_name(g, a.name1)
        j == get_player_by_name(g, a.name2)
    IN  IF i = 0 THEN {Out(g, "NotFound")}
        ELSE IF j = 0 THEN {Out(g, "NotFound")}
        ELSE LET g1 == [g EXCEPT !.players[i].character = g.players[j].character]
             IN {Out([g1 EXCEPT !.players[j].character = g.players[i].character], "ok")}

\* routes/players.py rename_player
rename_player(g, a) ==
    LET i == get_player_by_name(g, a.name) IN
    IF i = 0 THEN {Out(g, "NotFound")}
    ELSE {Out([g EXCEPT !.players[i].name = a.new_name], "ok")}

\* routes/players.py remove_player
remove_player(g, a) ==
    LET o == remove_player_by_name(g, a.name) IN
    {IF o.res = "ValueError" THEN Out(g, "NotFound") ELSE o}

\* routes/players.py get_roles_visibility
get_roles_visibility(g, a) == {Out(g, "ok")}

\* routes/players.py set_roles_visibility
set_roles_visibility(g, a) ==
    {Out([g EXCEPT !.should_reveal_roles = a.should_reveal_roles], "ok")}

\* routes/players.py add_status_effect
add_status_effect_route(g, a) ==
    LET i == get_player_by_name(g, a.name) IN
    IF i = 0 THEN {Out(g, "NotFound")}
    ELSE {Out([g EXCEPT !.players[i] = add_status_effect(@, a.status_effect)], "ok")}

\* routes/players.py remove_status_effect
remove_status_effect_route(g, a) ==
    LET i == get_player_by_name(g, a.name) IN
    IF i = 0 THEN {Out(g, "NotFound")}
    ELSE {Out([g EXCEPT !.players[i] = remove_status_effect(@, a.status_effect)], "ok")}

\* routes/characters.py add_role
add_role(g, a) ==
    LET o == include_role(g, a.name) IN
    {IF o.res = "ValueError" THEN Out(g, "InvalidArgument") ELSE o}

RECURSIVE AppendUntilUnknown(_, _)
\* variant: every name is appended as it is validated
AppendUntilUnknown(g, names) ==
    IF names = <<>> THEN Out(g, "ok")
    ELSE IF get_character(Head(names)) = NoCharacter THEN Out(g, "InvalidArgument")
    ELSE AppendUntilUnknown(
             [g EXCEPT !.included_roles = Append(@, get_character(Head(names)))],
             Tail(names))

add_role_multi_partial(g, a) == {AppendUntilUnknown(g, a.names)}

\* variant: the characters are appended last name first
add_role_multi_reversed(g, a) ==
    IF \E k \in DOMAIN a.names : get_character(a.names[k]) = NoCharacter
    THEN {Out(g, "InvalidArgument")}
    ELSE {Out([g EXCEPT !.included_roles =
                   @ \o [k \in DOMAIN a.names |->
                            get_character(a.names[Len(a.names) + 1 - k])]], "ok")}

\* routes/characters.py add_role_multi: validate every name, then append all
add_role_multi(g, a) ==
    IF \E k \in DOMAIN a.names : get_character(a.names[k]) = NoCharacter
    THEN {Out(g, "InvalidArgument")}
    ELSE {Out([g EXCEPT !.included_roles =
                   @ \o [k \in DOMAIN a.names |-> get_character(a.names[k])]], "ok")}

\* routes/characters.py remove_role
remove_role_route(g, a) ==
    LET o == remove_role(g, a.name) IN
    {IF o.res = "ValueError" THEN Out(g, "NotFound") ELSE o}

\* routes/game.py set_night_step
set_night_step(g, a) == {Out([g EXCEPT !.current_night_step = a.step], "ok")}

\* variant: the step goes back to Dusk only when the flag changes
set_first_night_on_change(g, a) ==
    {Out([g EXCEPT !.is_first_night = a.is_first_night,
                   !.current_night_step =
                       IF g.is_first_night = a.is_first_night THEN @ ELSE "Dusk"],
         "ok")}

\* routes/game.py set_first_night
set_first_night(g, a) ==
    {Out([g EXCEPT !.is_first_night = a.is_first_night,
                   !.current_night_step = "Dusk"], "ok")}

\* the handlers whose body has no await: they run in one step under the lock
Handle(o, g, a) ==
    CASE o = "add_player" -> add_player(g, a)
      [] o = "add_traveler" -> add_traveler(g, a)
      [] o = "set_alive" -> set_player_alive(g, a)
      [] o = "set_has_used_dead_vote" -> set_player_has_used_dead_vote(g, a)
      [] o = "set_alignment" -> set_player_alignment(g, a)
      [] o = "swap_character" -> swap_character(g, a)
      [] o = "rename" -> rename_player(g, a)
      [] o = "remove_player" -> remove_player(g, a)
      [] o = "get_visibility" -> get_roles_visibility(g, a)
      [] o = "set_visibility" -> set_roles_visibility(g, a)
      [] o = "add_status_effect" -> add_status_effect_route(g, a)
      [] o = "remove_status_effect" -> remove_status_effect_route(g, a)
      [] o = "add_role" -> add_role(g, a)
      [] o = "add_role_multi" -> add_role_multi(g, a)
      [] o = "remove_role" -> remove_role_route(g, a)
      [] o = "set_night_step" -> set_night_step(g, a)
      [] o = "set_first_night" -> set_first_night(g, a)

----------------------------------------------------------------------------
(* The aggregate the process starts with *)

\* the roles and players of Game.get_sample_game, cut down to the modelled
\* characters and to two players
SampleRoles == <<"imp", "poisoner", "monk">>

RECURSIVE IncludeAll(_, _)
\* g after include_role of every name of the sequence
IncludeAll(g, names) ==
    IF names = <<>> THEN g
    ELSE IncludeAll(include_role(g, Head(names)).game, Tail(names))

\* Game.get_sample_game: every aggregate the random assignments can give
get_sample_game ==
    {[o2.game EXCEPT
        !.players[1] = add_status_effect(@, "Is The Demon"),
        !.players[2] =
            [add_status_effect(add_status_effect(@, "Drunk"), "No Ability")
                EXCEPT !.is_alive = FALSE, !.has_used_dead_vote = TRUE]] :
     o2 \in UNION {add_player_with_random_role(o1.game, "Yash") :
                     o1 \in add_player_with_random_role(
                                IncludeAll(NewGame, SampleRoles), "Ryan")}}

----------------------------------------------------------------------------
(* Requests *)

\* what the requests carry: for every handler an input it accepts in the
\* sample game and, where it can refuse, one it refuses there or once the
\* player it names has been removed or renamed
NameInputs == {"Ryan", "Alice"}
KnownNameInputs == {"Ryan"}
OtherNameInputs == {"Yash", "Alice"}
NewNameInputs == {"Alice"}
DeadNameInputs == {"Yash"}
AddEffectInputs == {"Drunk"}
RemoveEffectInputs == {"Drunk", "Safe"}
RoleInputs == {"imp", "Cook"}
RoleListInputs == {<<"Monk", " Poisoner ">>, <<"Monk", "Cook">>}
TravelerInputs == {"Beggar", "Cook"}
ScriptInputs == {"trouble_brewing", "sects_and_violets", "homebrew"}
StepInputs == {"Poisoner"}

\* ScriptName.from_str
ScriptNames == {"trouble_brewing", "sects_and_violets", "bad_moon_rising"}

\* scripts/registry.py get_script_by_name
RegisteredScripts == {"trouble_brewing"}

Req(o, A) == {[op |-> o, arg |-> a] : a \in A}

Requests ==
    Req("add_player", [name : NameInputs])
    \cup Req("add_traveler", [name : NewNameInputs, traveler : TravelerInputs])
    \cup Req("get_player_role", [name : NameInputs])
    \cup Req("set_alive", [name : KnownNameInputs, is_alive : {FALSE}])
    \cup Req("set_has_used_dead_vote",
             [name : KnownNameInputs, has_used_dead_vote : {TRUE}])
    \cup Req("set_alignment", [name : KnownNameInputs, alignment : {"good"}])
    \cup Req("swap_character", [name1 : KnownNameInputs, name2 : OtherNameInputs])
    \cup Req("rename", [name : KnownNameInputs, new_name : OtherNameInputs])
    \cup Req("remove_player", [name : NameInputs])
    \cup Req("get_visibility", {NoArg})
    \cup Req("set_visibility", [should_reveal_roles : BOOLEAN])
    \cup Req("add_status_effect",
             [name : OtherNameInputs, status_effect : AddEffectInputs])
    \cup Req("remove_status_effect",
             [name : DeadNameInputs, status_effect : RemoveEffectInputs])
    \cup Req("add_role", [name : RoleInputs])
    \cup Req("add_role_multi", [names : RoleListInputs])
    \cup Req("remove_role", [name : RoleInputs])
    \cup Req("new_game", [script_name : ScriptInputs])
    \cup Req("set_night_step", [step : StepInputs])
    \cup Req("set_first_night", [is_first_night : {FALSE}])

----------------------------------------------------------------------------
(* The Timer Service and the Display Sync Client as they are constructed *)

\* TimerState.seconds of a new TimerState, 5 * 60
DefaultSeconds == 300

\* ObsManager._reconnect_delay of a new ObsManager, and after a connect
InitialDelay == 1

\* ObsManager._max_reconnect_delay
MaxReconnectDelay == 30

NoTick == [none |-> TRUE]

\* no fetch_timer request has been made
NoFetch ==
    [pc |-> "none", ahead |-> {}, is_running |-> FALSE, seconds |-> 0,
     seen |-> {}]

\* what the history keeps of a call: the call and the timer as it left it
TimerMark(o, v, s, r) ==
    [op |-> o, value |-> v, seconds |-> s, is_running |-> r,
     ticks |-> ticks, cues |-> cues]

\* TimerState.__init__ (the tick task is created by the first call)
TimerState ==
    /\ seconds = DefaultSeconds
    /\ is_running = FALSE
    /\ timer_lock = "free"
    /\ tick_task = "none"
    /\ pending = {}
    /\ calls = 0
    /\ ticks = 0
    /\ cues = 0
    /\ mark = TimerMark("none", 0, seconds, is_running)
    /\ tick = NoTick
    /\ fetch = NoFetch

\* variant: the same id again
uuid4_again(last_id) == IF last_id = 0 THEN 1 ELSE last_id

\* uuid.uuid4() of ObsManager's "self.run_id = str(uuid.uuid4())", after
\* last_id ids were drawn: a random 122-bit value, taken to differ from
\* every one drawn before, so the ids are numbered in the order they are drawn
uuid4(last_id) == last_id + 1

\* ObsManager.__init__ followed by setup_obs_scene of TimerState.__init__:
\* the first connect succeeds or not, the scene is set up or not, and a
\* reconnect loop is scheduled after a failed connect where an event loop runs
ObsManager(has_loop, connect_ok, setup_ok) ==
    /\ connected = (connect_ok /\ setup_ok)
    /\ video_settings = (connect_ok /\ setup_ok)
    /\ reconnect_enabled = TRUE
    /\ reconnect_task = IF ~connect_ok /\ has_loop THEN "scheduled" ELSE "none"
    /\ reconnect_delay = InitialDelay
    /\ worker = "idle"
    /\ future = "none"
    /\ delays = <<>>
    /\ connects = 0
    /\ scene = [run_id |-> uuid4(0),
                set_up |-> IF connect_ok /\ setup_ok THEN uuid4(0) ELSE 0]

\* routes/timer.py "state = TimerState()" with no display to connect to: the
\* services as the Session Store specifications leave them
ServicesIdle == TimerState /\ ObsManager(FALSE, FALSE, FALSE)

----------------------------------------------------------------------------
(* The Session Store *)

InStore == {"held", "sleeping"}

\* GameManager.__init__
Init ==
    /\ game \in get_sample_game
    /\ lock = NoReq
    /\ pc = [r \in Reqs |-> "new"]
    /\ op = [r \in Reqs |-> "none"]
    /\ arg = [r \in Reqs |-> NoArg]
    /\ attempts = [r \in Reqs |-> 0]
    /\ entry = NoGame
    /\ last = NoLast
    /\ ServicesIdle

\* variant: the lock is handed out although another request holds it
lock_acquirable_unguarded(r) == TRUE

\* asyncio.Lock.acquire: the lock is free and no earlier request waits for it
lock_acquirable(r) ==
    /\ lock = NoReq
    /\ \A s \in Reqs : s < r => pc[s] # "waiting"

\* variant: the lock is released on the normal path only
lock_after_exit_leak(r, status) == IF status \in Errors THEN r ELSE NoReq

\* the exit of "async with self.lock": the holder of the lock afterwards
lock_after_exit(r, status) == NoReq

\* request q arrives as number r; requests are numbered in the order they
\* arrive, and r goes on to the session lock
Arrive(r, q) ==
    /\ pc[r] = "new"
    /\ r > 1 => pc[r - 1] # "new"
    /\ op' = [op EXCEPT ![r] = q.op]
    /\ arg' = [arg EXCEPT ![r] = q.arg]
    /\ pc' = [pc EXCEPT ![r] = "waiting"]
    /\ UNCHANGED <<game, lock, attempts, entry, last, timer_vars, obs_vars>>

\* a request for a handler that uses the session arrives
Issue(r) ==
    \E q \in Requests :
        /\ q.op = "new_game" => q.arg.script_name \in RegisteredScripts
        /\ Arrive(r, q)

\* routes/game.py new_game for a script that is unknown (404) or that the
\* registry cannot build (Game.__init__ raises): it ends before replace_game
new_game_refused(r) ==
    /\ pc[r] = "new"
    /\ r > 1 => pc[r - 1] # "new"
    /\ \E q \in Requests :
        /\ q.op = "new_game"
        /\ q.arg.script_name \notin RegisteredScripts
        /\ last' = [op |-> q.op, arg |-> q.arg, before |-> game,
                    res |-> IF q.arg.script_name \in ScriptNames
                            THEN "ServerError" ELSE "NotFound",
                    attempts |-> 0]
    /\ pc' = [pc EXCEPT ![r] = "done"]
    /\ UNCHANGED <<game, lock, op, arg, attempts, entry, timer_vars, obs_vars>>

\* GameManager.locked_game / replace_game: "async with self.lock" is entered
locked_game(r) ==
    /\ pc[r] = "waiting"
    /\ lock_acquirable(r)
    /\ lock' = r
    /\ entry' = game
    /\ pc' = [pc EXCEPT ![r] = "held"]
    /\ UNCHANGED <<game, op, arg, attempts, last, timer_vars, obs_vars>>

\* a handler ends after n polls: its answer is given and "async with" is left
Finish(r, g, status, n) ==
    /\ game' = g
    /\ op' = [op EXCEPT ![r] = "none"]
    /\ arg' = [arg EXCEPT ![r] = NoArg]
    /\ attempts' = [attempts EXCEPT ![r] = 0]
    /\ pc' = [pc EXCEPT ![r] = "done"]
    /\ lock' = lock_after_exit(r, status)
    /\ entry' = NoGame
    /\ last' = [op |-> op[r], arg |-> arg[r], before |-> entry, res |-> status,
                attempts |-> n]
    /\ UNCHANGED <<timer_vars, obs_vars>>

\* the body of a handler that has no await, run under the lock
Run(r) ==
    /\ pc[r] = "held"
    /\ op[r] \notin {"get_player_role", "new_game", "get_game_state", "get_game"}
    /\ \E o \in Handle(op[r], game, arg[r]) : Finish(r, o.game, o.res, 0)

\* variant: the aggregate is replaced without the lock
replace_game_unlocked(r) ==
    /\ pc[r] = "waiting"
    /\ op[r] = "new_game"
    /\ game' = NewGame
    /\ op' = [op EXCEPT ![r] = "none"]
    /\ arg' = [arg EXCEPT ![r] = NoArg]
    /\ pc' = [pc EXCEPT ![r] = "done"]
    /\ last' = [op |-> op[r], arg |-> arg[r], before |-> game, res |-> "ok",
                attempts |-> 0]
    /\ UNCHANGED <<lock, attempts, entry, timer_vars, obs_vars>>

\* GameManager.replace_game: the aggregate new_game built replaces the old one
replace_game(r) ==
    /\ pc[r] = "held"
    /\ op[r] = "new_game"
    /\ Finish(r, NewGame, "ok", 0)

\* variant: one attempt too many
keeps_polling_off_by_one(g, polling_attempts) ==
    ~g.should_reveal_roles /\ polling_attempts <= MaxAttempts

\* variant: the flag is not looked at
keeps_polling_blind(g, polling_attempts) == polling_attempts < MaxAttempts

\* the loop condition of get_player_role
keeps_polling(g, polling_attempts) ==
    ~g.should_reveal_roles /\ polling_attempts < MaxAttempts

\* get_player_role from a loop test on: sleep again, or leave the loop and answer
poll(r, polling_attempts) ==
    IF keeps_polling(game, polling_attempts)
    THEN /\ attempts' = [attempts EXCEPT ![r] = polling_attempts]
         /\ pc' = [pc EXCEPT ![r] = "sleeping"]
         /\ UNCHANGED <<game, lock, op, arg, entry, last, timer_vars, obs_vars>>
    ELSE Finish(r, game,
             IF polling_attempts >= MaxAttempts THEN "Timeout" ELSE "ok",
             polling_attempts)

\* variant: the player is not looked up before the wait
get_player_role_unchecked(r) ==
    /\ pc[r] = "held"
    /\ op[r] = "get_player_role"
    /\ poll(r, 0)

\* routes/players.py get_player_role up to its first await or its end
get_player_role(r) ==
    /\ pc[r] = "held"
    /\ op[r] = "get_player_role"
    /\ IF get_player_by_name(game, arg[r].name) = 0
       THEN Finish(r, game, "NotFound", 0)
       ELSE poll(r, 0)

\* routes/players.py get_player_role waking from asyncio.sleep
wake(r) ==
    /\ pc[r] = "sleeping"
    /\ poll(r, attempts[r] + 1)

Next ==
    \E r \in Reqs :
        \/ Issue(r)
        \/ new_game_refused(r)
        \/ locked_game(r)
        \/ Run(r)
        \/ replace_game(r)
        \/ get_player_role(r)
        \/ wake(r)

Spec == Init /\ [][Next]_vars

TypeOK ==
    /\ lock \in Reqs \cup {NoReq}
    /\ \A r \in Reqs :
           pc[r] \in {"new", "waiting", "held", "sleeping", "done",
                      "get_is_running", "get_seconds", "using"}

----------------------------------------------------------------------------
(* Properties of the Session Store and of the visibility wait *)

\* the requests that are inside "async with game_ctx"
Inside == {r \in Reqs : pc[r] \in InStore}

\* r takes a step
Steps(r) == pc'[r] # pc[r] \/ attempts'[r] # attempts[r]

\* r ends in this step
Ends(r) == pc[r] # "done" /\ pc'[r] = "done"

\* C1: at most one request is inside the Session Store and it is the holder
\* of the lock; while a request is inside, the aggregate is the one it was
\* handed and changes only in the step that ends that request, and the
\* aggregate never changes otherwise: the operations take effect one after
\* another.
C1_Linearized ==
    /\ [](Cardinality(Inside) <= 1 /\ \A r \in Inside : lock = r /\ entry = game)
    /\ [][/\ \A r \in Inside : game' # game => Ends(r)
          /\ game' # game => Inside # {}]_vars

\* a request is inside the store with the lock while another one, which
\* would change the aggregate, waits for the lock
C1_Witness ==
    \E r, s \in Reqs :
        /\ pc[r] \in InStore /\ lock = r
        /\ pc[s] = "waiting"
        /\ op[s] = "add_player"
        /\ \E o \in add_player(game, arg[s]) : o.game # game

\* C2: a get_player_role waiter does not time out when a set_visibility(true)
\* request was issued while it was waiting.
C2_WaitersSucceed ==
    [][\A r \in Reqs :
          (/\ op[r] = "get_player_role"
           /\ pc[r] = "sleeping"
           /\ \E s \in Reqs : /\ op[s] = "set_visibility"
                              /\ pc[s] = "waiting"
                              /\ arg[s].should_reveal_roles)
          => ~(Ends(r) /\ last'.res = "Timeout")]_vars

\* C3: a waiter that sleeps between two polls does not hold the session lock.
C3_SleepsWithoutLock == \A r \in Reqs : pc[r] = "sleeping" => lock # r

\* C4: a wait never polls more than MaxAttempts times, Timeout is reported
\* after exactly MaxAttempts polls, and a wait for an existing player that
\* started with the flag false ends with Timeout, not with success.
C4_TimeoutAfterMaxAttempts ==
    /\ \A r \in Reqs : attempts[r] <= MaxAttempts
    /\ last.attempts <= MaxAttempts
    /\ last.res = "Timeout" => last.attempts = MaxAttempts
    /\ (/\ last.op = "get_player_role"
        /\ ~last.before.should_reveal_roles
        /\ get_player_by_name(last.before, last.arg.name) # 0)
       => last.res = "Timeout" /\ last.attempts = MaxAttempts

\* a wait has timed out after MaxAttempts polls
C4_Witness ==
    /\ last.op = "get_player_role"
    /\ last.res = "Timeout"
    /\ last.attempts = MaxAttempts

C6_LockReleased ==
    /\ \A r \in Reqs : lock = r => pc[r] \in InStore
    /\ Inside = {} => lock = NoReq

\* a request that held the lock has ended with an error and the lock is free
C6_Witness ==
    /\ last.res \in Errors
    /\ last.op # "new_game"
    /\ lock = NoReq

\* C7: after a request has ended with an error the aggregate is the one the
\* request started from.
C7_ErrorsChangeNothing == last.res \in Errors => game = last.before

\* add_role_multi has ended with an error after a name it could have added
C7_Witness ==
    /\ last.op = "add_role_multi"
    /\ last.res = "InvalidArgument"
    /\ get_character(last.arg.names[1]) # NoCharacter

\* C8: new_game leaves exactly a new aggregate, whatever it started from, and
\* no other request is inside the store when the aggregate is replaced.
C8_NewGameAtomic ==
    /\ [](last.op = "new_game" /\ last.res = "ok" => game = NewGame)
    /\ [][\A r \in Reqs :
             op[r] = "new_game" /\ Ends(r)
             => \A s \in Reqs \ {r} : pc[s] \notin InStore]_vars

\* new_game has replaced an aggregate that had players, and a later request waits
C8_Witness ==
    /\ last.op = "new_game" /\ last.res = "ok"
    /\ last.before.players # <<>>
    /\ game = NewGame
    /\ \E s \in Reqs : pc[s] = "waiting"

----------------------------------------------------------------------------
(* The status-effect cascade, from every table of three players *)

CascadeNames == <<"Alice", "Bob", "Charlie">>
CascadeCharacters == <<"Poisoner", "Monk", "Imp">>

\* the lists add_status_effect can have built from two effect names
CascadeEffectLists ==
    {<<>>, <<"Poisoned">>, <<"Safe">>, <<"Poisoned", "Safe">>, <<"Safe", "Poisoned">>}

\* a session with three players, each alive or dead, with any effects
CascadeGames ==
    {[NewGame EXCEPT !.players =
         [i \in 1..3 |->
             [Player(CascadeNames[i], CascadeCharacters[i]) EXCEPT
                 !.is_alive = alive[i], !.status_effects = effects[i]]]] :
     alive \in [1..3 -> BOOLEAN], effects \in [1..3 -> CascadeEffectLists]}

CascadeRequests ==
    Req("set_alive", [name : Elems(CascadeNames), is_alive : BOOLEAN])

InitCascade ==
    /\ game \in CascadeGames
    /\ lock = NoReq
    /\ pc = [r \in Reqs |-> "new"]
    /\ op = [r \in Reqs |-> "none"]
    /\ arg = [r \in Reqs |-> NoArg]
    /\ attempts = [r \in Reqs |-> 0]
    /\ entry = NoGame
    /\ last = NoLast
    /\ ServicesIdle

\* a set_alive request arrives
IssueSetAlive(r) == \E q \in CascadeRequests : Arrive(r, q)

NextCascade ==
    \E r \in Reqs :
        \/ IssueSetAlive(r)
        \/ locked_game(r)
        \/ Run(r)

SpecCascade == InitCascade /\ [][NextCascade]_vars

\* the player the last request named, in the aggregate it started from
Dying == get_player_by_name(last.before, last.arg.name)

\* the last request changed a player from alive to dead
Death ==
    /\ last.op = "set_alive"
    /\ last.res = "ok"
    /\ ~last.arg.is_alive
    /\ last.before.players[Dying].is_alive

\* the effect names the dying player's character is the source of
Attributed == persistent_effect_names(last.before.players[Dying].character)

EffectsBefore(j) == last.before.players[j].status_effects
EffectsAfter(j) == game.players[j].status_effects

\* C9: after a request changed a player from alive to dead, that player is
\* dead and no other player has an effect attributed to its character.
C9_CascadeRemoves ==
    Death =>
        /\ ~game.players[Dying].is_alive
        /\ \A j \in DOMAIN game.players \ {Dying} :
               Elems(EffectsAfter(j)) \cap Attributed = {}

\* a player died while two other players had an effect attributed to it
C9_Witness ==
    /\ Death
    /\ Cardinality({j \in DOMAIN game.players \ {Dying} :
                       Elems(EffectsBefore(j)) \cap Attributed # {}}) = 2

\* C10: a death removes attributed effects only: every other effect of every
\* player stays, no effect appears, the dying player's effects are as they
\* were, and nothing changes when the character has no attributed effect.
C10_CascadeKeepsOthers ==
    Death =>
        /\ EffectsAfter(Dying) = EffectsBefore(Dying)
        /\ \A j \in DOMAIN game.players :
               /\ Elems(EffectsAfter(j)) \subseteq Elems(EffectsBefore(j))
               /\ Elems(EffectsBefore(j)) \ Attributed \subseteq Elems(EffectsAfter(j))
               /\ Attributed = {} => EffectsAfter(j) = EffectsBefore(j)

\* a player died while another had an attributed effect and one that is not:
\* the first is gone, the second is kept
C10_Witness ==
    /\ Death
    /\ \E j \in DOMAIN game.players \ {Dying} :
           /\ Elems(EffectsBefore(j)) \cap Attributed # {}
           /\ Elems(EffectsBefore(j)) \ Attributed # {}
           /\ Elems(EffectsAfter(j)) = Elems(EffectsBefore(j)) \ Attributed
    /\ EffectsBefore(Dying) # <<>>

\* the last request changed a player from dead to alive
Revival ==
    /\ last.op = "set_alive"
    /\ last.res = "ok"
    /\ last.arg.is_alive
    /\ ~last.before.players[Dying].is_alive

\* C11: after a request changed a player from dead to alive, that player is
\* alive and every player has the status effects it had before the request:
\* nothing is cleaned up and nothing is given back.
C11_RevivalKeepsEffects ==
    Revival =>
        /\ game.players[Dying].is_alive
        /\ \A j \in DOMAIN game.players : EffectsAfter(j) = EffectsBefore(j)

\* a player was revived while one other player had an effect attributed to
\* its character and another had none
C11_Witness ==
    /\ Revival
    /\ Attributed # {}
    /\ \E j, k \in DOMAIN game.players \ {Dying} :
           /\ Elems(EffectsBefore(j)) \cap Attributed # {}
           /\ Elems(EffectsBefore(k)) \cap Attributed = {}

----------------------------------------------------------------------------
(* The Timer Service: the calls of routes/timer.py and the tick loop *)

\* number of calls of one behaviour
NumCalls == 3

\* number of ticks of one behaviour
MaxTicks == 5

\* the largest value a call sets the timer to
MaxSeconds == 3

\* what the calls carry: set_seconds below and above zero, add_seconds with
\* negative deltas that reach below zero
SecondsInputs == -1 .. MaxSeconds
DeltaInputs == {-2, -1, 1}

TimerCalls ==
    [op : {"set_seconds"}, arg : SecondsInputs]
    \cup [op : {"add_seconds"}, arg : DeltaInputs]
    \cup [op : {"set_is_running"}, arg : BOOLEAN]

\* variant: the new value is stored as it is given
set_seconds_unclamped(new_value) == new_value

\* TimerState.set_seconds: the value stored
set_seconds(new_value) == IF new_value < 0 THEN 0 ELSE new_value

\* TimerState._ensure_tick_task_running
_ensure_tick_task_running(task) ==
    IF task \in {"none", "dead"} THEN "idle" ELSE task

\* variant: add_seconds reads self.seconds under the timer lock
set_seconds_of_sum(item, s) ==
    IF item.op = "add_seconds" THEN set_seconds(s + item.delta)
    ELSE set_seconds(item.value)

\* TimerState.set_seconds as a call that waited runs it: the value was
\* computed when the call arrived
set_seconds_of(item, s) == set_seconds(item.value)

\* what a call waits for the lock with: add_seconds reads self.seconds
\* before set_seconds takes the lock (delta is kept for the history)
CallItem(c) ==
    [op |-> c.op,
     value |-> IF c.op = "add_seconds" THEN seconds + c.arg ELSE c.arg,
     delta |-> IF c.op = "add_seconds" THEN c.arg ELSE 0]

\* the body of set_is_running / set_seconds under the timer lock
ApplyCall(item) ==
    /\ seconds' = IF item.op = "set_is_running" THEN seconds
                  ELSE set_seconds_of(item, seconds)
    /\ is_running' = IF item.op = "set_is_running" THEN item.value
                     ELSE is_running
    /\ mark' = TimerMark(item.op, item.value, seconds', is_running')

\* the fetch_timer request waits for the timer lock
FetchWaits == fetch.pc \in {"get_is_running", "get_seconds"}

\* the history of the timer that a fetch between its two reads keeps
Seen(f, r, s) ==
    IF f.pc = "get_seconds" THEN [f EXCEPT !.seen = @ \cup {<<r, s>>}] ELSE f

\* a call of set_is_running, set_seconds or add_seconds: it ensures the tick
\* task and runs at once when the lock is free and nobody waits for it
TimerCall ==
    \E c \in TimerCalls :
        /\ calls < NumCalls
        /\ calls' = calls + 1
        /\ tick_task' = _ensure_tick_task_running(tick_task)
        /\ IF timer_lock = "free" /\ pending = {} /\ ~FetchWaits
           THEN ApplyCall(CallItem(c)) /\ UNCHANGED pending
           ELSE /\ pending' = pending \cup {CallItem(c)}
                /\ UNCHANGED <<seconds, is_running, mark>>
        /\ UNCHANGED <<timer_lock, ticks, cues, tick, fetch, session_vars,
                       obs_vars>>

\* a call that waited gets the lock; the lock is handed on in the order of
\* arrival, so a call that arrived after a waiting fetch waits for its read
TimerCallResumes ==
    \E item \in pending :
        /\ timer_lock = "free"
        /\ FetchWaits => item \in fetch.ahead
        /\ ApplyCall(item)
        /\ fetch' = Seen(fetch, is_running', seconds')
        /\ pending' = pending \ {item}
        /\ UNCHANGED <<timer_lock, tick_task, calls, ticks, cues, tick,
                       session_vars, obs_vars>>

\* variant: the timer stops in the tick that takes it to zero
handle_tick_eager(s) ==
    IF s > 1 THEN [seconds |-> s - 1, is_running |-> TRUE, cue |-> FALSE]
    ELSE [seconds |-> 0, is_running |-> FALSE, cue |-> TRUE]

\* variant: the cue is played in every tick of a running timer
handle_tick_noisy(s) ==
    IF s > 0 THEN [seconds |-> s - 1, is_running |-> TRUE, cue |-> TRUE]
    ELSE [seconds |-> 0, is_running |-> FALSE, cue |-> TRUE]

\* TimerState.handle_tick, the body for a running timer after the push
handle_tick(s) ==
    IF s > 0 THEN [seconds |-> s - 1, is_running |-> TRUE, cue |-> FALSE]
    ELSE [seconds |-> 0, is_running |-> FALSE, cue |-> TRUE]

\* the tick task after the tick: SoundFX().play raises or not (routes/sounds.py
\* answers 500 when it does), and nothing in handle_tick catches what it raises
cue_outcomes(cue) == IF cue THEN {"idle", "dead"} ELSE {"idle"}

\* the end of a tick of a running timer: count down or stop, leave the lock
Countdown ==
    LET t == handle_tick(seconds) IN
    /\ seconds' = t.seconds
    /\ is_running' = t.is_running
    /\ cues' = IF t.cue THEN cues + 1 ELSE cues
    /\ tick_task' \in cue_outcomes(t.cue)
    /\ timer_lock' = "free"
    /\ ticks' = ticks + 1
    /\ tick' = [seconds |-> seconds, is_running |-> is_running,
                cue |-> t.cue, raised |-> tick_task' = "dead",
                pushed |-> tick_task = "pushing",
                push_failed |-> tick_task = "pushing" /\ ~connected,
                session_lock |-> lock]

\* ObsManager.update_timer_async: the push is skipped, or _update_timer_sync
\* is handed to the executor
pushes == connected /\ video_settings

\* handle_tick: the tick task wakes up, takes the lock and, when the timer
\* runs, pushes the value to the display and counts down
Tick ==
    /\ tick_task = "idle"
    /\ timer_lock = "free"
    /\ pending = {}
    /\ ~FetchWaits
    /\ ticks < MaxTicks
    /\ IF ~is_running
       THEN /\ ticks' = ticks + 1
            /\ tick' = [seconds |-> seconds, is_running |-> is_running,
                        cue |-> FALSE, raised |-> FALSE,
                        pushed |-> FALSE, push_failed |-> FALSE,
                        session_lock |-> lock]
            /\ UNCHANGED <<seconds, is_running, timer_lock, tick_task, cues,
                           worker>>
       ELSE IF pushes
       THEN /\ tick_task' = "pushing"
            /\ timer_lock' = "tick"
            /\ worker' = "push"
            /\ UNCHANGED <<seconds, is_running, ticks, cues, tick>>
       ELSE Countdown /\ UNCHANGED worker
    /\ UNCHANGED <<pending, calls, mark, fetch, session_vars, connected,
                   video_settings, reconnect_enabled, reconnect_task,
                   reconnect_delay, future, delays, connects, scene>>

\* handle_tick after "await update_timer_async": the push has returned
TickResumes ==
    /\ tick_task = "pushing"
    /\ worker = "idle"
    /\ Countdown
    /\ UNCHANGED <<pending, calls, mark, fetch, session_vars, obs_vars>>

----------------------------------------------------------------------------
(* The Display Sync Client: pushes, the reconnect loop and close *)

\* number of connect attempts of one behaviour
MaxConnects == 7

\* the reconnect task has been created and has not ended
ActiveTask == {"scheduled", "sleeping", "connecting", "setting_up"}

\* variant: a task is created whether or not one is active
_schedule_reconnect_again(task, enabled, in_event_loop) ==
    IF ~enabled THEN task ELSE "scheduled"

\* ObsManager._schedule_reconnect: the reconnect task afterwards.  A task is
\* created only where asyncio.get_running_loop() finds a loop, which is in
\* the thread of the event loop and not in the thread of the executor.
_schedule_reconnect(task, enabled, in_event_loop) ==
    IF ~enabled THEN task
    ELSE IF task \in ActiveTask THEN task
    ELSE IF in_event_loop THEN "scheduled"
    ELSE task

\* ObsManager._update_timer_sync, run by the executor: the push is skipped,
\* goes through, or fails, and a failure is answered by _mark_disconnected
_update_timer_sync ==
    /\ worker = "push"
    /\ worker' = "idle"
    /\ \/ UNCHANGED <<connected, video_settings, reconnect_task>>
       \/ /\ pushes
          /\ connected' = FALSE
          /\ video_settings' = FALSE
          /\ reconnect_task' =
                 _schedule_reconnect(reconnect_task, reconnect_enabled, FALSE)
    /\ UNCHANGED <<reconnect_enabled, reconnect_delay, future, delays, connects, scene,
                   session_vars, timer_vars>>

\* variant: the delay is doubled without a cap
next_delay_uncapped(delay) == delay * 2

\* _reconnect_loop: the delay after a failed attempt
next_delay(delay) ==
    IF delay * 2 < MaxReconnectDelay THEN delay * 2 ELSE MaxReconnectDelay

\* _reconnect_loop at the head of "while": it goes to sleep for the delay,
\* or ends
_reconnect_loop ==
    /\ reconnect_task = "scheduled"
    /\ IF ~connected /\ reconnect_enabled
       THEN /\ reconnect_task' = "sleeping"
            /\ delays' = Append(delays, reconnect_delay)
       ELSE /\ reconnect_task' = "done"
            /\ UNCHANGED delays
    /\ UNCHANGED <<connected, video_settings, reconnect_enabled,
                   reconnect_delay, worker, future, connects, scene,
                   session_vars, timer_vars>>

\* _reconnect_loop after the sleep: _try_connect is handed to the executor
reconnect_attempt ==
    /\ reconnect_task = "sleeping"
    /\ IF ~reconnect_enabled
       THEN /\ reconnect_task' = "done"
            /\ UNCHANGED <<worker, future, connects>>
       ELSE /\ worker = "idle"
            /\ connects < MaxConnects
            /\ connects' = connects + 1
            /\ worker' = "try_connect"
            /\ future' = "pending"
            /\ reconnect_task' = "connecting"
    /\ UNCHANGED <<connected, video_settings, reconnect_enabled,
                   reconnect_delay, delays, scene, session_vars, timer_vars>>

\* ObsManager._try_connect: the fields it writes
_try_connect(ok) ==
    [connected |-> ok,
     delay |-> IF ok THEN InitialDelay ELSE reconnect_delay]

\* _try_connect run by the executor; the thread runs to its end whether or
\* not the task that waits for it has been cancelled
try_connect_thread ==
    /\ worker = "try_connect"
    /\ \E ok \in BOOLEAN :
        /\ connected' = _try_connect(ok).connected
        /\ reconnect_delay' = _try_connect(ok).delay
        /\ delays' = IF ok THEN <<>> ELSE delays
        /\ future' = IF reconnect_task # "connecting" THEN future
                     ELSE IF ok THEN "true" ELSE "false"
    /\ worker' = "idle"
    /\ UNCHANGED <<video_settings, reconnect_enabled, reconnect_task, connects, scene,
                   session_vars, timer_vars>>

\* _reconnect_loop after _try_connect: the scene is set up again after a
\* success, the delay grows after a failure
reconnect_result ==
    /\ reconnect_task = "connecting"
    /\ future \in {"true", "false"}
    /\ IF future = "true"
       THEN /\ worker = "idle"
            /\ worker' = IF connected THEN "setup" ELSE "setup_skipped"
            /\ future' = "pending"
            /\ reconnect_task' = "setting_up"
            /\ scene' = [scene EXCEPT !.run_id = uuid4(@)]
            /\ UNCHANGED reconnect_delay
       ELSE /\ reconnect_delay' = next_delay(reconnect_delay)
            /\ future' = "none"
            /\ reconnect_task' = "scheduled"
            /\ UNCHANGED <<worker, scene>>
    /\ UNCHANGED <<connected, video_settings, reconnect_enabled, delays,
                   connects, session_vars, timer_vars>>

\* ObsManager.setup_obs_scene run by the executor
setup_obs_scene ==
    /\ worker \in {"setup", "setup_skipped"}
    /\ worker' = "idle"
    /\ \E ok \in BOOLEAN :
        /\ ok \/ worker = "setup"
        /\ video_settings' = IF worker = "setup" THEN ok ELSE video_settings
        /\ scene' = IF worker = "setup" /\ ok
                    THEN [scene EXCEPT !.set_up = scene.run_id]
                    ELSE scene
        /\ connected' = IF ok THEN connected ELSE FALSE
        /\ future' = IF reconnect_task # "setting_up" THEN future
                     ELSE IF ok THEN "returned" ELSE "raised"
    /\ UNCHANGED <<reconnect_enabled, reconnect_task, reconnect_delay, delays,
                   connects, session_vars, timer_vars>>

\* _reconnect_loop after setup_obs_scene: back to the head of "while"
reconnect_set_up ==
    /\ reconnect_task = "setting_up"
    /\ future \in {"returned", "raised"}
    /\ connected' = IF future = "raised" THEN FALSE ELSE connected
    /\ future' = "none"
    /\ reconnect_task' = "scheduled"
    /\ UNCHANGED <<video_settings, reconnect_enabled, reconnect_delay, worker,
                   delays, connects, scene, session_vars, timer_vars>>

\* ObsManager.close: the task is cancelled, the executor is shut down, which
\* stops no job that already runs, and the client is marked disconnected
close ==
    /\ reconnect_enabled
    /\ reconnect_enabled' = FALSE
    /\ reconnect_task' = IF reconnect_task \in ActiveTask THEN "cancelled"
                         ELSE reconnect_task
    /\ future' = "none"
    /\ connected' = FALSE
    /\ video_settings' = FALSE
    /\ UNCHANGED <<reconnect_delay, worker, delays, connects, scene,
                   session_vars, timer_vars>>

----------------------------------------------------------------------------
(* The timer of routes/timer.py and the display client on its own *)

\* the session plays no part
SessionIdle ==
    /\ game = NewGame
    /\ lock = NoReq
    /\ pc = [r \in Reqs |-> "done"]
    /\ op = [r \in Reqs |-> "none"]
    /\ arg = [r \in Reqs |-> NoArg]
    /\ attempts = [r \in Reqs |-> 0]
    /\ entry = NoGame
    /\ last = NoLast

\* routes/timer.py "state = TimerState()": the module is imported before an
\* event loop runs, so a failed first connect schedules no reconnect loop
InitTimer ==
    /\ SessionIdle
    /\ TimerState
    /\ \E connect_ok, setup_ok \in BOOLEAN :
           ObsManager(FALSE, connect_ok, setup_ok)

NextTimer ==
    \/ TimerCall
    \/ TimerCallResumes
    \/ Tick
    \/ TickResumes
    \/ _update_timer_sync

SpecTimer == InitTimer /\ [][NextTimer]_vars

\* an ObsManager made where an event loop runs, with a timer nobody starts
InitObs ==
    /\ SessionIdle
    /\ TimerState
    /\ \E connect_ok, setup_ok \in BOOLEAN :
           ObsManager(TRUE, connect_ok, setup_ok)

\* ObsManager.update_timer_async called by a task of the event loop
update_timer_async ==
    /\ pushes
    /\ worker = "idle"
    /\ worker' = "push"
    /\ UNCHANGED <<connected, video_settings, reconnect_enabled,
                   reconnect_task, reconnect_delay, future, delays, connects, scene,
                   session_vars, timer_vars>>

NextObs ==
    \/ update_timer_async
    \/ _update_timer_sync
    \/ _reconnect_loop
    \/ reconnect_attempt
    \/ try_connect_thread
    \/ reconnect_result
    \/ setup_obs_scene
    \/ reconnect_set_up
    \/ close

SpecObs == InitObs /\ [][NextObs]_vars

----------------------------------------------------------------------------
(* Properties of the Timer Service *)

\* ticks and cues since the last call
TicksSince == ticks - mark.ticks
CuesSince == cues - mark.cues

\* the last call left the timer running with 3 seconds
RunDownFrom3 == mark.seconds = 3 /\ mark.is_running

\* C12 as stated: from seconds=3 and running, after 3 ticks the timer is at
\* zero and stopped and the cue has been played once, and a 4th tick changes
\* nothing.
C12_RunDownInThreeTicks ==
    RunDownFrom3 /\ TicksSince >= 3
    => seconds = 0 /\ ~is_running /\ CuesSince = 1

\* C12, as the code runs: from seconds=3 and running, after 3 ticks the timer
\* is at zero and still runs and no cue has been played; the 4th tick stops
\* it and plays the cue once; a 5th tick changes nothing.
C12_RunDownInFourTicks ==
    RunDownFrom3 =>
        /\ TicksSince < 3 => seconds = 3 - TicksSince /\ is_running /\ CuesSince = 0
        /\ TicksSince = 3 => seconds = 0 /\ is_running /\ CuesSince = 0
        /\ TicksSince >= 4 => seconds = 0 /\ ~is_running /\ CuesSince = 1

\* the timer has run down from 3 and a tick after the one that stopped it
\* has ended
C12_Witness ==
    /\ RunDownFrom3
    /\ TicksSince = 5
    /\ CuesSince = 1
    /\ ~is_running

\* a tick ends in this step
TickEnds == ticks' # ticks

\* C13: the cue is played only in a tick that finds the timer running at zero,
\* once, and that tick stops the timer at zero; every tick that stops the
\* timer plays it; a tick of a stopped timer and a tick that counts down
\* play none.
C13_CueOncePerRunToZero ==
    [][/\ cues' # cues =>
              /\ cues' = cues + 1
              /\ TickEnds
              /\ is_running /\ seconds = 0
              /\ ~is_running' /\ seconds' = 0
       /\ (TickEnds /\ is_running /\ ~is_running') => cues' = cues + 1
       /\ (TickEnds /\ (~is_running \/ seconds' < seconds)) => cues' = cues]_vars

\* the timer has run to zero twice and the cue has been played twice
C13_Witness ==
    /\ cues = 2
    /\ tick # NoTick
    /\ tick.cue
    /\ ~is_running /\ seconds = 0

\* C14: seconds is never negative, whatever the calls and ticks and however
\* they interleave.
C14_SecondsNeverNegative == seconds >= 0 /\ mark.seconds >= 0

\* add_seconds with a negative delta has asked for a value below zero while
\* the timer was running, and the timer is at zero
C14_Witness ==
    /\ mark.op = "add_seconds"
    /\ mark.value < 0
    /\ mark.is_running
    /\ seconds = 0
    /\ ticks > 0

\* C15: whatever is raised inside a tick, by the push or by the cue, the tick
\* loop goes on: at the end of every tick the tick task is alive, waiting for
\* its next tick, and the timer lock is free.
C15_TickLoopSurvives ==
    [][TickEnds => tick_task' = "idle" /\ timer_lock' = "free"]_vars

\* a push has failed inside a tick and the tick has ended all the same
C15_PushFailureSurvived ==
    /\ tick # NoTick
    /\ tick.push_failed
    /\ ~connected
    /\ tick_task = "idle"
    /\ timer_lock = "free"

----------------------------------------------------------------------------
(* Properties of the Display Sync Client *)

\* a push fails in this step: the executor ends _update_timer_sync and the
\* client, which was connected, is marked disconnected
PushFails == worker = "push" /\ worker' = "idle" /\ connected /\ ~connected'

\* C16: after a push has failed while the client was connected, the client
\* is disconnected and, unless it has been closed, a reconnect loop is active.
C16_PushFailureSchedulesReconnect ==
    [][PushFails =>
          /\ ~connected'
          /\ reconnect_enabled => reconnect_task' \in ActiveTask]_vars

\* a push has failed while the reconnect loop that made the connection had
\* not ended yet: that loop goes on
C16_FailureInsideLoop ==
    /\ reconnect_task = "setting_up"
    /\ future = "returned"
    /\ reconnect_enabled
    /\ ~connected
    /\ ~video_settings
    /\ worker = "idle"

RECURSIVE Backoff(_)
\* the delay before the i-th attempt in a row as the claim states it:
\* 1, 2, 4, 8, 16, then 30
Backoff(i) ==
    IF i = 1 THEN 1
    ELSE IF 2 * Backoff(i - 1) < 30 THEN 2 * Backoff(i - 1) ELSE 30

\* C17: the delays slept since the last connect (or since the start) are
\* 1, 2, 4, 8, 16, 30, 30, ...: the i-th is Backoff(i); the delay is back
\* at 1 after a connect.
C17_BackoffSequence ==
    /\ \A i \in 1 .. Len(delays) : delays[i] = Backoff(i)
    /\ delays = <<>> => reconnect_delay = 1
    /\ reconnect_delay <= 30

\* seven attempts in a row have failed: the delays were 1, 2, 4, 8, 16, 30, 30
C17_Witness ==
    /\ delays = <<1, 2, 4, 8, 16, 30, 30>>
    /\ connects = 7
    /\ reconnect_task = "scheduled"
    /\ reconnect_delay = 30

\* C18: once the client is closed no connect attempt is started, no
\* reconnect loop is active, and connected is false and stays false, also
\* when a connect attempt was in flight at the time of close.
C18_ClosedStaysClosed ==
    /\ [](~reconnect_enabled =>
             /\ ~connected
             /\ reconnect_task \notin ActiveTask)
    /\ [][~reconnect_enabled => connects' = connects]_vars

\* the client was closed while a connect attempt was in flight: the task is
\* cancelled and the executor still runs _try_connect
C18_ClosedDuringConnect ==
    /\ ~reconnect_enabled
    /\ reconnect_task = "cancelled"
    /\ worker = "try_connect"
    /\ ~connected

----------------------------------------------------------------------------
(* The role pool under requests that add and remove players *)

\* largest number of characters, in the pool and held, that a request may
\* still add to
MaxPool == 5

PoolNames == {"Ryan", "Yash", "Alice"}

\* the requests of routes/players.py that add or remove a player
PoolRequests ==
    Req("add_player", [name : PoolNames])
    \cup Req("add_traveler", [name : PoolNames, traveler : TravelerInputs])
    \cup Req("remove_player", [name : PoolNames])

\* the characters of the pool and of the players
PoolSize(g) == Len(g.included_roles) + Len(g.players)

\* one request served from the entry into the session lock to its exit: the
\* three handlers have no await between the two
Serve(q) ==
    /\ PoolSize(game) <= MaxPool
    /\ \E o \in Handle(q.op, game, q.arg) :
           /\ game' = o.game
           /\ last' = [op |-> q.op, arg |-> q.arg, before |-> game,
                       res |-> o.res, attempts |-> 0]
    /\ UNCHANGED <<lock, pc, op, arg, attempts, entry, timer_vars, obs_vars>>

NextPool == \E q \in PoolRequests : Serve(q)

SpecPool == Init /\ [][NextPool]_vars

\* number of elements of the sequence s that are in the set S
RECURSIVE CountIn(_, _)
CountIn(s, S) ==
    IF s = <<>> THEN 0
    ELSE (IF Head(s) \in S THEN 1 ELSE 0) + CountIn(Tail(s), S)

\* the characters the players hold, in the order of the players
Held(g) == [i \in DOMAIN g.players |-> g.players[i].character]

\* the non-traveler characters of the pool plus those the players hold
NonTravelerCount(g) ==
    CountIn(g.included_roles, CharacterNames) + CountIn(Held(g), CharacterNames)

\* C19: whatever sequence of add-player, add-traveler and remove-player
\* requests has been served, the non-traveler characters of includedRoles
\* plus the non-traveler characters the players hold are as many as the
\* sample game started with
C19_PoolConserved == NonTravelerCount(game) = Len(SampleRoles)

\* a traveler went back into the pool and was drawn from it by add_player:
\* the pool and the players together hold more characters than at the start
C19_Witness ==
    /\ last.op = "add_player" /\ last.res = "ok"
    /\ Held(game)[Len(game.players)] \in TravelerNames
    /\ PoolSize(game) > Len(SampleRoles)
    /\ CountIn(Held(game), CharacterNames) > 0

----------------------------------------------------------------------------
(* The round trip include, assign at random, remove *)

RoundTripRoles == {"imp", "Monk", "Cook"}
RoundTripNames == {"Ryan", "Alice"}

\* a new session or the sample game
InitRoundTrip ==
    /\ game \in get_sample_game \cup {NewGame}
    /\ lock = NoReq
    /\ pc = [r \in Reqs |-> "new"]
    /\ op = [r \in Reqs |-> "none"]
    /\ arg = [r \in Reqs |-> NoArg]
    /\ attempts = [r \in Reqs |-> 0]
    /\ entry = NoGame
    /\ last = NoLast
    /\ ServicesIdle

\* no round trip is under way
TripOver == entry = NoGame \/ last.op = "remove_player"

\* include(c): add_role served; entry keeps the aggregate as the include
\* left it, for the round trip that starts here
include(c) ==
    /\ TripOver
    /\ PoolSize(game) < MaxPool
    /\ \E o \in add_role(game, [name |-> c]) :
           /\ game' = o.game
           /\ entry' = IF o.res = "ok" THEN o.game ELSE NoGame
           /\ last' = [op |-> "add_role", arg |-> [name |-> c], before |-> game,
                       res |-> o.res, attempts |-> 0]
    /\ UNCHANGED <<lock, pc, op, arg, attempts, timer_vars, obs_vars>>

\* p = assignRandom(name): add_player served right after the include; a
\* refused request ends the round trip
assignRandom(name) ==
    /\ ~TripOver
    /\ last.op = "add_role"
    /\ \E o \in add_player(game, [name |-> name]) :
           /\ game' = o.game
           /\ entry' = IF o.res = "ok" THEN entry ELSE NoGame
           /\ last' = [op |-> "add_player", arg |-> [name |-> name],
                       before |-> game, res |-> o.res, attempts |-> 0]
    /\ UNCHANGED <<lock, pc, op, arg, attempts, timer_vars, obs_vars>>

\* remove(p.name): remove_player served for the player just added
remove ==
    /\ ~TripOver
    /\ last.op = "add_player"
    /\ \E o \in remove_player(game, last.arg) :
           /\ game' = o.game
           /\ last' = [op |-> "remove_player", arg |-> last.arg, before |-> game,
                       res |-> o.res, attempts |-> 0]
    /\ UNCHANGED <<lock, pc, op, arg, attempts, entry, timer_vars, obs_vars>>

NextRoundTrip ==
    \/ \E c \in RoundTripRoles : include(c)
    \/ \E name \in RoundTripNames : assignRandom(name)
    \/ remove

SpecRoundTrip == InitRoundTrip /\ [][NextRoundTrip]_vars

\* number of elements of the sequence s equal to x
Occurrences(s, x) == CountIn(s, {x})

\* the two lists have the same members, each as often
SameMembers(s, t) ==
    \A x \in Elems(s) \cup Elems(t) : Occurrences(s, x) = Occurrences(t, x)

\* a round trip has just ended
TripDone == entry # NoGame /\ last.op = "remove_player"

\* the character held by the player the round trip added and removed
TripCharacter ==
    last.before.players[get_player_by_name(last.before, last.arg.name)].character

\* C20: after include(c), p = assignRandom(name), remove(p.name) the removal
\* succeeds, the character p held and the included c are in includedRoles,
\* and includedRoles has the members it had right after the include, each as
\* often
C20_RoundTrip ==
    TripDone =>
        /\ last.res = "ok"
        /\ TripCharacter \in Elems(game.included_roles)
        /\ entry.included_roles[Len(entry.included_roles)]
               \in Elems(game.included_roles)
        /\ SameMembers(game.included_roles, entry.included_roles)
        /\ game.players = entry.players

\* a round trip that drew a character other than the one it included, from a
\* pool that holds a character twice, and left the pool in another order
C20_Witness ==
    /\ TripDone
    /\ TripCharacter # entry.included_roles[Len(entry.included_roles)]
    /\ game.included_roles # entry.included_roles
    /\ \E x \in Elems(entry.included_roles) :
           Occurrences(entry.included_roles, x) = 2

----------------------------------------------------------------------------
(* Assigning a named role *)

AssignRoles == {"imp", "Monk", ""}
AssignNames == {"Alice", "Bob"}

\* the requests that fill the pool
AssignRequests == Req("add_role", [name : RoleInputs])

\* a call of Game.add_player_with_role, as the tests make it: no route of the
\* repository calls it
assign(name, role_name) ==
    /\ PoolSize(game) <= MaxPool
    /\ LET o == add_player_with_role(game, name, role_name) IN
           /\ game' = o.game
           /\ last' = [op |-> "add_player_with_role",
                       arg |-> [name |-> name, role |-> role_name],
                       before |-> game, res |-> o.res, attempts |-> 0]
    /\ UNCHANGED <<lock, pc, op, arg, attempts, entry, timer_vars, obs_vars>>

NextAssign ==
    \/ \E q \in AssignRequests : Serve(q)
    \/ \E name \in AssignNames, role_name \in AssignRoles : assign(name, role_name)

SpecAssign == InitRoundTrip /\ [][NextAssign]_vars

\* the players of g that hold the character named n
Holders(g, n) == {i \in DOMAIN g.players : is_named(g.players[i].character, n)}

\* the last call assigned a role that a player already held
AssignedTwice ==
    /\ last.op = "add_player_with_role"
    /\ Holders(last.before, last.arg.role) # {}

\* C21: a call that assigns a character a player already holds fails, and
\* the aggregate (the assignment there is, players, includedRoles) is as it
\* was before the call
C21_SecondAssignmentFails ==
    AssignedTwice => last.res = "ValueError" /\ game = last.before

\* the character was included twice: the second assignment went through and
\* two players hold the same character
C21_TwoHolders ==
    /\ AssignedTwice /\ last.res = "ok"
    /\ Cardinality(Holders(game, last.arg.role)) = 2

----------------------------------------------------------------------------
(* Player names *)

\* the names of the players of g, in the order of the players
PlayerNames(g) == [i \in DOMAIN g.players |-> g.players[i].name]

\* C22: in every reachable state of a session no two players have the same
\* name, whatever add, add-traveler, rename, swap and remove requests were
\* served
C22_NamesUnique ==
    \A i, j \in DOMAIN game.players :
        game.players[i].name = game.players[j].name => i = j

\* a rename to the name of another player was served and answered 200
C22_RenamedToTakenName ==
    /\ last.op = "rename" /\ last.res = "ok"
    /\ get_player_by_name(last.before, last.arg.new_name) # 0
    /\ last.arg.new_name # last.arg.name
    /\ CountIn(PlayerNames(game), {last.arg.new_name}) = 2

----------------------------------------------------------------------------
(* Adding several roles in one request *)

\* the last request was add_role_multi
MultiAdd == last.op = "add_role_multi"

\* a name of the last request is no character of the script
MultiAddHasUnknown ==
    \E k \in DOMAIN last.arg.names :
        \A c \in CharacterNames : ~is_named(c, last.arg.names[k])

\* C23: add_role_multi with a name that is no character of the script fails
\* and leaves includedRoles as it was; with known names only it succeeds and
\* includedRoles is the old list followed by the named characters in the
\* order of the request
C23_MultiAddAllOrNothing ==
    MultiAdd =>
        LET old == last.before.included_roles
            new == game.included_roles
            names == last.arg.names
        IN IF MultiAddHasUnknown
           THEN last.res \in Errors /\ new = old
           ELSE /\ last.res = "ok"
                /\ Len(new) = Len(old) + Len(names)
                /\ SubSeq(new, 1, Len(old)) = old
                /\ \A k \in DOMAIN names : is_named(new[Len(old) + k], names[k])

\* two different characters were appended to a pool that was not empty
C23_Witness ==
    /\ MultiAdd /\ last.res = "ok"
    /\ last.before.included_roles # <<>>
    /\ Len(last.arg.names) = 2
    /\ ~is_named(get_character(last.arg.names[1]), last.arg.names[2])
    /\ Len(game.included_roles) = Len(last.before.included_roles) + 2

----------------------------------------------------------------------------
(* The night phase *)

NightStepInputs == {"Dusk", "Poisoner", "Imp"}

\* the requests of routes/game.py that write the night phase
NightRequests ==
    Req("set_night_step", [step : NightStepInputs])
    \cup Req("set_first_night", [is_first_night : BOOLEAN])

NextNight == \E q \in NightRequests : Serve(q)

SpecNight == Init /\ [][NextNight]_vars

\* C24: after every set_first_night the current night step is "Dusk" and the
\* flag is the one requested, whatever the step and the flag were before;
\* set_night_step leaves isFirstNight as it was
C24_FirstNightResetsToDusk ==
    /\ last.op = "set_first_night" =>
           /\ game.current_night_step = "Dusk"
           /\ game.is_first_night = last.arg.is_first_night
    /\ last.op = "set_night_step" =>
           /\ game.is_first_night = last.before.is_first_night
           /\ game.current_night_step = last.arg.step

\* set_first_night wrote the value the flag already had, on a later night,
\* while another step was current
C24_Witness ==
    /\ last.op = "set_first_night"
    /\ last.before.current_night_step \notin {"Dusk"}
    /\ last.before.is_first_night = last.arg.is_first_night
    /\ ~game.is_first_night
    /\ game.current_night_step = "Dusk"

----------------------------------------------------------------------------
(* get_player_role for a name that is no player *)

\* the last request was get_player_role for a name that was no player of the
\* aggregate it was handed
RoleOfNobody ==
    /\ last.op = "get_player_role"
    /\ get_player_by_name(last.before, last.arg.name) = 0

\* C25: get_player_role for a name that is not a player ends with NotFound
\* without having slept once, whether the roles are revealed or not; no such
\* request is ever asleep in the wait, and a request that ends with Timeout
\* named a player
C25_NotFoundWithoutPolling ==
    /\ RoleOfNobody => last.res = "NotFound" /\ last.attempts = 0
    /\ \A r \in Reqs :
           op[r] = "get_player_role" /\ pc[r] = "sleeping"
           => get_player_by_name(game, arg[r].name) # 0
    /\ last.op = "get_player_role" /\ last.res = "Timeout"
           => get_player_by_name(last.before, last.arg.name) # 0

\* the name was asked for while the roles were hidden, where a player would
\* have been made to wait
C25_Witness ==
    /\ RoleOfNobody
    /\ ~last.before.should_reveal_roles
    /\ last.res = "NotFound"
    /\ last.attempts = 0

----------------------------------------------------------------------------
(* get_game_state: the session and then the timer, beside the tick loop *)

StateRequests ==
    Req("get_game_state", {NoArg})
    \cup Req("get_player_role", [name : KnownNameInputs])
    \cup Req("set_visibility", [should_reveal_roles : {TRUE}])

\* the session store as GameManager.__init__ leaves it, the timer as
\* start_timer(MaxSeconds) leaves it, the display connected or not
InitGameState ==
    /\ game \in get_sample_game
    /\ lock = NoReq
    /\ pc = [r \in Reqs |-> "new"]
    /\ op = [r \in Reqs |-> "none"]
    /\ arg = [r \in Reqs |-> NoArg]
    /\ attempts = [r \in Reqs |-> 0]
    /\ entry = NoGame
    /\ last = NoLast
    /\ seconds = MaxSeconds
    /\ is_running = TRUE
    /\ timer_lock = "free"
    /\ tick_task = "idle"
    /\ pending = {}
    /\ calls = 0
    /\ ticks = 0
    /\ cues = 0
    /\ mark = TimerMark("set_is_running", TRUE, seconds, is_running)
    /\ tick = NoTick
    /\ fetch = NoFetch
    /\ \E ok \in BOOLEAN : ObsManager(FALSE, ok, ok)

\* a request of StateRequests arrives
IssueState(r) == \E q \in StateRequests : Arrive(r, q)

\* variant: the timer is read inside "async with game_ctx"
lock_after_game_state_nested(r) == r

\* get_game_state: the holder of the session lock when the handler goes on
\* to the timer
lock_after_game_state(r) == NoReq

\* routes/game.py get_game_state, the part under the session lock: the
\* aggregate is read and "async with game_ctx" is left
get_game_state(r) ==
    /\ pc[r] = "held"
    /\ op[r] = "get_game_state"
    /\ lock' = lock_after_game_state(r)
    /\ entry' = NoGame
    /\ pc' = [pc EXCEPT ![r] = "get_is_running"]
    /\ UNCHANGED <<game, op, arg, attempts, last, timer_vars, obs_vars>>

\* TimerState.get_is_running awaited by get_game_state: the timer lock is
\* taken, the flag read, the lock left
get_is_running(r) ==
    /\ pc[r] = "get_is_running"
    /\ timer_lock = "free"
    /\ pc' = [pc EXCEPT ![r] = "get_seconds"]
    /\ UNCHANGED <<game, lock, op, arg, attempts, entry, last, timer_vars,
                   obs_vars>>

\* TimerState.get_seconds awaited by get_game_state, and the answer
get_seconds(r) ==
    /\ pc[r] = "get_seconds"
    /\ timer_lock = "free"
    /\ pc' = [pc EXCEPT ![r] = "done"]
    /\ op' = [op EXCEPT ![r] = "none"]
    /\ arg' = [arg EXCEPT ![r] = NoArg]
    /\ last' = [op |-> op[r], arg |-> arg[r], before |-> game, res |-> "ok",
                attempts |-> 0]
    /\ UNCHANGED <<game, lock, attempts, entry, timer_vars, obs_vars>>

\* variant: the tick loop waits for the session lock before every tick
handle_tick_loop_after_session == lock = NoReq /\ (Tick \/ TickResumes)

\* TimerState.handle_tick: the loop of the tick task, one step per wake-up
handle_tick_loop == Tick \/ TickResumes

NextGameState ==
    \/ \E r \in Reqs :
           \/ IssueState(r)
           \/ locked_game(r)
           \/ Run(r)
           \/ get_player_role(r)
           \/ wake(r)
           \/ get_game_state(r)
           \/ get_is_running(r)
           \/ get_seconds(r)
    \/ handle_tick_loop
    \/ _update_timer_sync

SpecGameState == InitGameState /\ [][NextGameState]_vars

\* request r is taking the timer lock, or waiting for it
AtTimerLock(r) == pc[r] \in {"get_is_running", "get_seconds"}

\* C26: a request that takes or waits for the timer lock does not hold the
\* session lock, so no task has both; and no step of the timer (a tick, the
\* tick task taking or leaving the timer lock) changes the holder of the
\* session lock
C26_LocksNeverNested ==
    /\ [](\A r \in Reqs : AtTimerLock(r) => lock # r)
    /\ [][ticks' # ticks \/ timer_lock' # timer_lock => lock' = lock]_vars

\* get_game_state waits for the timer lock, which the tick task holds across
\* its push, while another request holds the session lock
C26_Witness ==
    /\ \E r \in Reqs : AtTimerLock(r) /\ op[r] = "get_game_state"
    /\ timer_lock = "tick"
    /\ \E s \in Reqs : lock = s /\ ~AtTimerLock(s)

\* the tick task is due: it is not in a tick, its lock is free, ticks remain
TickDue ==
    /\ tick_task = "idle"
    /\ timer_lock = "free"
    /\ pending = {}
    /\ ticks < MaxTicks

\* C27: a tick that is due can happen whoever holds the session lock, and a
\* step of the tick loop neither takes nor leaves the session lock nor moves
\* a request
C27_TicksWhileSessionLocked ==
    /\ [](TickDue => ENABLED handle_tick_loop)
    /\ [][ticks' # ticks \/ tick_task' # tick_task
             => lock' = lock /\ pc' = pc /\ game' = game]_vars

\* every tick of the behaviour has happened, the last of them while the
\* get_player_role that still holds the session lock was asleep in its wait
C27_Witness ==
    /\ ticks = MaxTicks
    /\ tick # NoTick
    /\ tick.session_lock # NoReq
    /\ lock = tick.session_lock
    /\ pc[lock] = "sleeping"
    /\ attempts[lock] >= 1

----------------------------------------------------------------------------
(* Where a character is *)

\* how often character c is in the pool of g, and how many players hold it
Places(g, c) == Occurrences(g.included_roles, c) + Occurrences(Held(g), c)

\* C28: in every reachable state no character of the script, traveler or
\* not, is in includedRoles twice, or in includedRoles and held by a player,
\* or held by two players
C28_OnePlacePerCharacter ==
    \A c \in CharacterNames \cup TravelerNames : Places(game, c) <= 1

\* add_role was answered 200 for a character that a player holds: it is in
\* includedRoles and held
C28_IncludedAndHeld ==
    /\ last.op = "add_role" /\ last.res = "ok"
    /\ Holders(game, last.arg.name) # {}
    /\ NamedIndex(game.included_roles, last.arg.name, 1) # 0

----------------------------------------------------------------------------
(* GameManager.get_game *)

GetGameRequests ==
    Req("get_game", {NoArg})
    \cup Req("get_player_role", [name : KnownNameInputs])
    \cup Req("set_visibility", [should_reveal_roles : BOOLEAN])
    \cup Req("rename", [name : KnownNameInputs, new_name : NewNameInputs])

\* a task calls GameManager.get_game, or a request of the routes arrives
IssueGetGame(r) == \E q \in GetGameRequests : Arrive(r, q)

\* GameManager.get_game: "return self.game" inside "async with self.lock":
\* the lock is left as the aggregate is handed to the caller
get_game(r) ==
    /\ pc[r] = "held"
    /\ op[r] = "get_game"
    /\ lock' = lock_after_exit(r, "ok")
    /\ entry' = NoGame
    /\ pc' = [pc EXCEPT ![r] = "using"]
    /\ UNCHANGED <<game, op, arg, attempts, last, timer_vars, obs_vars>>

\* the caller of get_game reads the aggregate it was handed
use_game(r) ==
    /\ pc[r] = "using"
    /\ pc' = [pc EXCEPT ![r] = "done"]
    /\ op' = [op EXCEPT ![r] = "none"]
    /\ arg' = [arg EXCEPT ![r] = NoArg]
    /\ last' = [op |-> op[r], arg |-> arg[r], before |-> game, res |-> "ok",
                attempts |-> 0]
    /\ UNCHANGED <<game, lock, attempts, entry, timer_vars, obs_vars>>

NextGetGame ==
    \E r \in Reqs :
        \/ IssueGetGame(r)
        \/ locked_game(r)
        \/ Run(r)
        \/ get_player_role(r)
        \/ wake(r)
        \/ get_game(r)
        \/ use_game(r)

SpecGetGame == Init /\ [][NextGetGame]_vars

\* the tasks that have the aggregate in hand
HasGame == {r \in Reqs : pc[r] \in {"held", "sleeping", "using"}}

\* C29: a task that has the aggregate in hand, through locked_game, get_game
\* or replace_game, holds the session lock
C29_AggregateOnlyUnderLock == \A r \in HasGame : lock = r

\* a caller of get_game has the aggregate in hand while another request is
\* inside the store with the lock
C29_UsedBesideTheHolder ==
    \E r, s \in Reqs :
        /\ r # s
        /\ pc[r] = "using"
        /\ pc[s] \in InStore /\ lock = s

----------------------------------------------------------------------------
(* The death of a player and the cascade as one step *)

\* player i goes from alive to dead in this step
Dies(i) == game.players[i].is_alive /\ ~game'.players[i].is_alive

\* C30: the step that takes a player from alive to dead also leaves no other
\* player with an effect attributed to its character; it is one step of the
\* request that holds the session lock, that request ends with it, and no
\* other request moves in it; the aggregate changes in no other kind of step
C30_DeathAndCascadeAtomic ==
    /\ [][\A i \in DOMAIN game.players :
             Dies(i) =>
                 /\ \A j \in DOMAIN game'.players \ {i} :
                        Elems(game'.players[j].status_effects)
                            \cap persistent_effect_names(game.players[i].character)
                        = {}
                 /\ \E r \in Reqs :
                        /\ lock = r /\ pc[r] = "held" /\ Ends(r)
                        /\ lock' = NoReq
                        /\ \A s \in Reqs \ {r} : pc'[s] = pc[s]]_vars
    /\ [][game' # game => \E r \in Reqs : lock = r /\ Ends(r)]_vars

\* a player died and took an attributed effect off another player while a
\* second request was waiting for the session lock
C30_Witness ==
    /\ Death
    /\ \E j \in DOMAIN game.players \ {Dying} :
           /\ Elems(EffectsBefore(j)) \cap Attributed # {}
           /\ Elems(EffectsAfter(j)) \cap Attributed = {}
    /\ \E s \in Reqs : pc[s] = "waiting" /\ op[s] = "set_alive"

----------------------------------------------------------------------------
(* A player that is dead is set to dead again *)

\* the last request set a dead player to dead
Redeath ==
    /\ last.op = "set_alive"
    /\ last.res = "ok"
    /\ ~last.arg.is_alive
    /\ ~last.before.players[Dying].is_alive

\* C31: a request that sets a dead player to dead leaves the aggregate as it
\* was: the cascade does not run again, and an effect attributed to that
\* player's character which another player has by then is kept
C31_RedeathChangesNothing ==
    Redeath =>
        /\ game = last.before
        /\ \A j \in DOMAIN game.players : EffectsAfter(j) = EffectsBefore(j)

\* a dead player was set to dead while another player had an effect
\* attributed to its character, and that player still has it
C31_Witness ==
    /\ Redeath
    /\ \E j \in DOMAIN game.players \ {Dying} :
           /\ Elems(EffectsBefore(j)) \cap Attributed # {}
           /\ Elems(EffectsAfter(j)) \cap Attributed # {}

----------------------------------------------------------------------------
(* The timer under fair ticking *)

\* the event loop runs a task that is ready and the executor runs a job it
\* was handed: a tick that is due happens, a push ends, a call that waits
\* for the free timer lock gets it
SpecTimerFair ==
    /\ SpecTimer
    /\ WF_vars(Tick)
    /\ WF_vars(TickResumes)
    /\ WF_vars(_update_timer_sync)
    /\ WF_vars(TimerCallResumes)

\* a call takes effect in this step
CallApplied == calls' # calls \/ pending' # pending

\* the timer runs, no call is left or waiting, and the ticks that remain are
\* enough to count it down and stop it
RunsUndisturbed ==
    /\ is_running
    /\ calls = NumCalls
    /\ pending = {}
    /\ ticks + seconds + 1 <= MaxTicks

\* C32: is_running goes from false to true only in a set_is_running(true),
\* from true to false only in a set_is_running(false) or in a tick that
\* finds the timer at zero; and a running timer that no further call
\* reaches is, under fair ticking, eventually stopped at zero
C32_StartsStopsAndRunsDown ==
    /\ [][/\ (~is_running /\ is_running') =>
                 /\ CallApplied
                 /\ mark'.op = "set_is_running"
                 /\ mark'.value = TRUE
          /\ (is_running /\ ~is_running') =>
                 \/ /\ CallApplied
                    /\ mark'.op = "set_is_running"
                    /\ mark'.value = FALSE
                 \/ TickEnds /\ seconds = 0 /\ seconds' = 0]_vars
    /\ (RunsUndisturbed ~> (~is_running /\ seconds = 0))

\* the timer runs with no call left and its tick task has ended: the cue of
\* the tick at zero raised while a set_is_running(true) waited for the lock
C32_RunningWithoutTicks ==
    /\ RunsUndisturbed
    /\ tick_task = "dead"
    /\ mark.op = "set_is_running"
    /\ tick # NoTick /\ tick.raised

----------------------------------------------------------------------------
(* The reconnect loop *)

\* a reconnect task is created in this step: the task is at the head of its
\* loop and has not come there from the end of an attempt
NewLoop ==
    /\ reconnect_task' = "scheduled"
    /\ reconnect_task \notin {"scheduled", "connecting", "setting_up"}

\* C33: a reconnect task is created only when none is active, and the
\* _schedule_reconnect of a failed push that finds a task active leaves the
\* task, the delay and the attempt in flight as they are
C33_OneReconnectLoop ==
    [][/\ NewLoop => reconnect_task \notin ActiveTask
       /\ (PushFails /\ reconnect_task \in ActiveTask) =>
              UNCHANGED <<reconnect_task, reconnect_enabled, reconnect_delay,
                          future, delays, connects>>]_vars

\* the loop had connected at its second attempt or later and set the scene
\* up; a push failed before the loop came back to the head of "while", and
\* the loop is still the one that waits for the result of the setup
C33_Witness ==
    /\ reconnect_task = "setting_up"
    /\ future = "returned"
    /\ connects > 1
    /\ reconnect_delay = InitialDelay
    /\ reconnect_enabled
    /\ ~connected

\* the reconnect loop learns that its connect attempt succeeded
ReconnectSucceeds ==
    /\ reconnect_task = "connecting"
    /\ future = "true"
    /\ reconnect_task' = "setting_up"

\* the executor runs a push that goes out to the display
PushGoesOut == worker = "push" /\ worker' = "idle" /\ pushes

\* C34: a reconnect that succeeds draws a run id that differs from every
\* one drawn before (the ids are numbered as they are drawn, so: a greater
\* one), and a push goes out only to a scene that setup_obs_scene has set up
\* under the current run id
C34_FreshRunPerReconnect ==
    [][/\ ReconnectSucceeds => scene'.run_id > scene.run_id
       /\ scene'.run_id >= scene.run_id
       /\ PushGoesOut => scene.set_up = scene.run_id]_vars

\* the loop has reconnected twice and a push is in flight on the scene of
\* the third run id
C34_Witness ==
    /\ scene.run_id = 3
    /\ scene.set_up = 3
    /\ worker = "push"
    /\ pushes

\* the reconnect loop learns that its connect attempt failed
ReconnectFails ==
    /\ reconnect_task = "connecting"
    /\ future = "false"
    /\ reconnect_task' = "scheduled"

\* the executor ends a _try_connect that connected
Connects == worker = "try_connect" /\ worker' = "idle" /\ connected'

\* C35: _reconnect_delay is between 1 and 30 in every state; it changes only
\* when the loop learns of a failed attempt, to the double or to 30 if that
\* is less, and when _try_connect connects, to 1
C35_DelayWithinBounds ==
    /\ [](reconnect_delay >= 1 /\ reconnect_delay <= 30)
    /\ [][reconnect_delay' # reconnect_delay =>
             \/ /\ ReconnectFails
                /\ reconnect_delay' = IF 2 * reconnect_delay < 30
                                      THEN 2 * reconnect_delay ELSE 30
             \/ /\ Connects
                /\ reconnect_delay' = 1]_vars

\* five attempts failed, the delay went up to 30, and the sixth attempt
\* connected: the delay is 1 again
C35_Witness ==
    /\ connects = 6
    /\ scene.run_id = 1
    /\ reconnect_task = "connecting"
    /\ future = "true"
    /\ connected
    /\ reconnect_delay = 1

\* close() runs
Closes == reconnect_enabled /\ ~reconnect_enabled'

\* the reconnect loop is back from a setup_obs_scene that raised, and writes
\* connected = False
SetUpRaised ==
    /\ reconnect_task = "setting_up"
    /\ future = "raised"
    /\ reconnect_task' = "scheduled"

\* the thread of the executor is inside a job that writes connection fields
InThread == worker \in {"try_connect", "push", "setup"}

\* C36: the writers of connected, run_id and _reconnect_delay exclude one
\* another: close() and the steps of the reconnect loop that write a field
\* run only while the thread of the executor is in no job that writes one
C36_WritersExcluded ==
    [][(Closes \/ ReconnectSucceeds \/ ReconnectFails \/ SetUpRaised)
          => ~InThread]_vars

\* close() wrote connected = False while _try_connect ran in the thread,
\* and the thread wrote connected = True after it: the closed client is
\* connected
C36_ClosedAndConnected ==
    /\ ~reconnect_enabled
    /\ reconnect_task = "cancelled"
    /\ worker = "idle"
    /\ connected

\* the display client where the event loop runs every task that is ready
\* and the executor every job it was handed
SpecObsFair ==
    /\ SpecObs
    /\ WF_vars(_reconnect_loop)
    /\ WF_vars(reconnect_attempt)
    /\ WF_vars(try_connect_thread)
    /\ WF_vars(reconnect_result)
    /\ WF_vars(setup_obs_scene)
    /\ WF_vars(reconnect_set_up)
    /\ WF_vars(_update_timer_sync)

\* the client is disconnected, not closed, and no reconnect loop is active
LeftDisconnected ==
    /\ ~connected
    /\ reconnect_enabled
    /\ reconnect_task \notin ActiveTask

\* C37: while the client is disconnected and not closed a reconnect loop is
\* active, or else a connect attempt follows (or the client is closed)
C37_DisconnectedReconnects ==
    LeftDisconnected ~>
        \/ worker = "try_connect"
        \/ reconnect_task \in ActiveTask
        \/ ~reconnect_enabled

\* the loop had reconnected, set the scene up and ended; then a push failed:
\* the client is disconnected and nothing is left to connect it again
C37_NobodyReconnects ==
    /\ LeftDisconnected
    /\ reconnect_task = "done"
    /\ scene.run_id > 1
    /\ scene.set_up = scene.run_id
    /\ worker = "idle"

----------------------------------------------------------------------------
(* add_seconds beside a tick *)

\* the add_seconds call item, which waited for the lock while the last tick
\* pushed and counted down, gets the lock in this step: it had read the
\* seconds the tick found
AddAfterTick(item) ==
    /\ item \in pending
    /\ pending' = pending \ {item}
    /\ item.op = "add_seconds"
    /\ tick # NoTick
    /\ tick.pushed /\ tick.is_running
    /\ item.value - item.delta = tick.seconds
    /\ seconds = handle_tick(tick.seconds).seconds

\* C38: an add_seconds that ran beside a tick leaves the seconds that the
\* tick followed by the addition, or the addition followed by the tick,
\* would leave
C38_AddSecondsBesideTick ==
    [][\A item \in pending :
          AddAfterTick(item) =>
              \/ seconds' = set_seconds(seconds + item.delta)
              \/ seconds' =
                     handle_tick(set_seconds(tick.seconds + item.delta)).seconds
      ]_vars

\* add_seconds(1) read 2 while the tick pushed; the tick counted down to 1;
\* the call then wrote 3: the second the tick took is back
C38_TickLost ==
    /\ mark.op = "add_seconds"
    /\ mark.value = 3
    /\ seconds = 3
    /\ tick # NoTick
    /\ tick.pushed /\ tick.is_running
    /\ tick.seconds = 2
    /\ mark.ticks = ticks
    /\ ticks = 1
    /\ calls = NumCalls
    /\ pending = {}

----------------------------------------------------------------------------
(* fetch_timer beside the calls and the tick *)

\* fetch_timer: "await state.get_is_running()" then "await
\* state.get_seconds()".  With the lock free and nobody waiting neither
\* await suspends, and the two reads are one step; otherwise the request
\* waits behind the calls that wait already
fetch_timer ==
    /\ fetch.pc = "none"
    /\ fetch' =
           IF timer_lock = "free" /\ pending = {}
           THEN [pc |-> "done", ahead |-> {}, is_running |-> is_running,
                 seconds |-> seconds, seen |-> {<<is_running, seconds>>}]
           ELSE [fetch EXCEPT !.pc = "get_is_running", !.ahead = pending]
    /\ UNCHANGED <<seconds, is_running, timer_lock, tick_task, pending, calls,
                   ticks, cues, mark, tick, session_vars, obs_vars>>

\* TimerState.get_is_running gets the lock, reads and leaves it; get_seconds
\* then takes the lock at once when nobody waits, and else waits behind
\* every call that waits
fetch_is_running ==
    /\ fetch.pc = "get_is_running"
    /\ timer_lock = "free"
    /\ fetch.ahead \cap pending = {}
    /\ fetch' =
           IF pending = {}
           THEN [pc |-> "done", ahead |-> {}, is_running |-> is_running,
                 seconds |-> seconds, seen |-> {<<is_running, seconds>>}]
           ELSE [pc |-> "get_seconds", ahead |-> pending,
                 is_running |-> is_running, seconds |-> 0,
                 seen |-> {<<is_running, seconds>>}]
    /\ UNCHANGED <<seconds, is_running, timer_lock, tick_task, pending, calls,
                   ticks, cues, mark, tick, session_vars, obs_vars>>

\* TimerState.get_seconds gets the lock and reads; fetch_timer answers
fetch_seconds ==
    /\ fetch.pc = "get_seconds"
    /\ timer_lock = "free"
    /\ fetch.ahead \cap pending = {}
    /\ fetch' = [fetch EXCEPT !.pc = "done", !.ahead = {},
                              !.seconds = seconds]
    /\ UNCHANGED <<seconds, is_running, timer_lock, tick_task, pending, calls,
                   ticks, cues, mark, tick, session_vars, obs_vars>>

NextFetch ==
    \/ NextTimer
    \/ fetch_timer
    \/ fetch_is_running
    \/ fetch_seconds

SpecFetch == InitTimer /\ [][NextFetch]_vars

\* C39: the pair fetch_timer answers with is a pair the timer held at one
\* instant between the two reads
C39_FetchedPairHeld ==
    fetch.pc = "done" => <<fetch.is_running, fetch.seconds>> \in fetch.seen

\* fetch_timer waited behind a tick with two calls behind it: it read
\* is_running = True, then set_is_running(False) and set_seconds(3) ran, then
\* it read seconds = 3, and the timer never ran with 3 seconds
C39_PairNeverHeld ==
    /\ fetch.pc = "done"
    /\ fetch.is_running
    /\ fetch.seconds = 3
    /\ fetch.seen = {<<TRUE, 299>>, <<FALSE, 299>>, <<FALSE, 3>>}
    /\ ~is_running /\ seconds = 3

----------------------------------------------------------------------------
(* The answer of get_player_role and the flag at the time of the answer *)

====
